---- MODULE Spec2Model ----
(***************************************************************************)
(* Model of autoreject/ransac.py: the Ransac estimator (subset sampler,    *)
(* prediction operator builder, consensus scorer, aggregator) and the      *)
(* fit / transform life cycle of one model instance, with the scoring      *)
(* phase of fit split over n_jobs workers.                                 *)
(*                                                                         *)
(* Arrays are functions over 0..n-1, as in the source (0-based indices).   *)
(* Reals are kept exact: a fraction is a pair <<num, den>>, a correlation  *)
(* is a triple <<sign, p, q>> standing for sign * sqrt(p / q) with p/q in  *)
(* lowest terms, and the 0/0 value (NaN) is <<0, 0, 0>>.                   *)
(***************************************************************************)
EXTENDS Integers, Sequences, FiniteSets, TLC

\* ---------------------------------------------------------------- bounds
NChannels == 3
NTimes == 2
MaxEpochs == 3
MaxJobs == 2
MaxResample == 2

\* ------------------------------------------------------- small arithmetic
Abs(x) == IF x < 0 THEN -x ELSE x

Sign(x) == IF x < 0 THEN -1 ELSE IF x = 0 THEN 0 ELSE 1

RECURSIVE Gcd(_, _)
Gcd(a, b) == IF b = 0 THEN a ELSE Gcd(b, a % b)

RECURSIVE SumTo(_, _)
\* sum of f[0] .. f[n-1]
SumTo(f, n) == IF n = 0 THEN 0 ELSE f[n - 1] + SumTo(f, n - 1)

Len0(f) == Cardinality(DOMAIN f)

\* np.concatenate of two 0-based arrays along axis 0
Concat0(a, b) ==
    [i \in 0..(Len0(a) + Len0(b) - 1) |->
        IF i < Len0(a) THEN a[i] ELSE b[i - Len0(a)]]

\* ------------------------------------------------------------- recording
\* The recording (epochs) is an external object.  A segment is one of a few
\* kinds of (sensors x time-samples) matrices; sensor `flat` (or -1 for
\* none) is identically zero in every segment.
Kinds == {1, 2}

\* kind 1: every sensor carries the common signal; kind 2: sensor 0 deviates
\* from it.
BaseSignal(t) == t + 1

OddSignal(t) == IF t % 2 = 0 THEN -(t + 1) ELSE t + 1

KindVal(k, c, t) ==
    IF k = 2 /\ c = 0 THEN OddSignal(t) ELSE BaseSignal(t)

\* epochs[idx].get_data()[0]: the (n_channels x n_times) matrix of segment idx
GetData(e, idx) ==
    [c \in 0..(NChannels - 1) |-> [t \in 0..(NTimes - 1) |->
        IF c = e.flat THEN 0 ELSE KindVal(e.segs[idx], c, t)]]

\* epochs.info['ch_names']: distinct names, in sensor order
ChNames == [p \in 0..(NChannels - 1) |-> 100 + p]

\* ch_names.index(name)
NameIndex(name) == CHOOSE p \in 0..(NChannels - 1) : ChNames[p] = name

\* ----------------------------------------------------------------- sampler
\* check_random_state(seed) / rng.permutation: a seeded generator, here a
\* linear congruential one, driving a Fisher-Yates shuffle of arange(n).
RngNext(s) == (5 * s + 3) % 64

RngDraw(s, n) == (s \div 4) % n

\* a swap that loses the element at j
SwapOverwrite(x, i, j) == [x EXCEPT ![i] = x[j]]

Swap(x, i, j) == [x EXCEPT ![i] = x[j], ![j] = x[i]]

RECURSIVE Shuffle(_, _, _)
\* shuffles x[0..i] in place; returns the array and the generator state
Shuffle(x, i, s) ==
    IF i < 1 THEN [arr |-> x, rng |-> s]
    ELSE Shuffle(Swap(x, i, RngDraw(RngNext(s), i + 1)), i - 1, RngNext(s))

Permutation(n, s) == Shuffle([i \in 0..(n - 1) |-> i], n - 1, s)

\* int(np.round(x)) for x = num / den >= 0: round half to even
RoundHalfEven(num, den) ==
    LET fl == num \div den
        r2 == 2 * (num % den)
    IN  IF r2 < den THEN fl
        ELSE IF r2 > den THEN fl + 1
        ELSE IF fl % 2 = 0 THEN fl ELSE fl + 1

\* rng.permutation(n_channels)[:n_samples]
Prefix(arr, n_samples) == [j \in 0..(n_samples - 1) |-> arr[j]]

RECURSIVE Picks(_, _, _, _)
\* the loop of lines 112-114: n_left successive draws from one generator
Picks(n_left, n_channels, n_samples, s) ==
    IF n_left = 0 THEN <<>>
    ELSE LET d == Permutation(n_channels, s)
         IN  <<Prefix(d.arr, n_samples)>> \o Picks(n_left - 1, n_channels, n_samples, d.rng)

\* Ransac._get_random_subsets: the subsets as lists of channel names
GetRandomSubsets(seed, frac, n_res) ==
    LET n_channels == NChannels
        n_samples == RoundHalfEven(frac[1] * n_channels, frac[2])
        picks == Picks(n_res, n_channels, n_samples, seed)
    IN  [r \in 0..(n_res - 1) |->
            [j \in 0..(n_samples - 1) |-> ChNames[picks[r + 1][j]]]]

\* ----------------------------------------------------------------- builder
\* The interpolation kernels are external.  They are modelled by integer
\* weights that fall off with the distance between sensor positions
\* (pos[c] = c); the two kernels differ.
MakeInterpolationMatrix(pick_from, to, j) == NChannels + 1 - Abs(to - pick_from[j])

FastMapMegChannels(pick_from, to, j) == 2 - Abs(to - pick_from[j])

\* one (n_channels x n_channels) operator: columns pick_from filled, rest zero
Mapping(type, pick_from) ==
    [to \in 0..(NChannels - 1) |-> [col \in 0..(NChannels - 1) |->
        IF \E j \in DOMAIN pick_from : pick_from[j] = col
        THEN LET j == CHOOSE jj \in DOMAIN pick_from : pick_from[jj] = col
             IN  IF type = "meg" THEN FastMapMegChannels(pick_from, to, j)
                 ELSE IF type = "eeg" THEN MakeInterpolationMatrix(pick_from, to, j)
                 ELSE 0
        ELSE 0]]

\* Ransac._get_mappings: the operators stacked row-wise, (R*C x C)
GetMappings(type, ch_subsets) ==
    [row \in 0..(Len0(ch_subsets) * NChannels - 1) |->
        LET r == row \div NChannels
            pick_from == [j \in DOMAIN ch_subsets[r] |-> NameIndex(ch_subsets[r][j])]
        IN  Mapping(type, pick_from)[row % NChannels]]

\* ------------------------------------------------------------------ scorer
NaN == <<0, 0, 0>>

Zero == <<0, 0, 1>>

\* num / denom with denom = sqrt(a) * sqrt(b): 0/0 is NaN
Divide(num, a, b) ==
    IF a * b = 0 THEN NaN
    ELSE LET g == Gcd(num * num, a * b)
         IN  <<Sign(num), (num * num) \div g, (a * b) \div g>>

\* data.T.dot(mappings.T): (n_times x R*C)
Dot(data, mappings) ==
    [t \in 0..(NTimes - 1) |-> [j \in DOMAIN mappings |->
        SumTo([k \in 0..(NChannels - 1) |-> data[k][t] * mappings[j][k]], NChannels)]]

\* y.reshape((n_times, n_channels, n_res), order='C'): C-order read and write
ReshapeC(y, n_res) ==
    LET flat == [k \in 0..(NTimes * NChannels * n_res - 1) |->
                    y[k \div (NChannels * n_res)][k % (NChannels * n_res)]]
    IN  [t \in 0..(NTimes - 1) |-> [c \in 0..(NChannels - 1) |-> [r \in 0..(n_res - 1) |->
            flat[(t * NChannels + c) * n_res + r]]]]

\* y.reshape((n_times, n_channels, n_res), order='F'): the elements are read
\* in Fortran order (first index fastest) and written in Fortran order
ReshapeF(y, n_res) ==
    LET flat == [k \in 0..(NTimes * NChannels * n_res - 1) |-> y[k % NTimes][k \div NTimes]]
    IN  [t \in 0..(NTimes - 1) |-> [c \in 0..(NChannels - 1) |-> [r \in 0..(n_res - 1) |->
            flat[t + NTimes * c + NTimes * NChannels * r]]]]

\* the k-th smallest (0-based) of the values v[0..n-1]
KthSmallest(v, k) ==
    CHOOSE x \in {v[i] : i \in DOMAIN v} :
        /\ Cardinality({i \in DOMAIN v : v[i] < x}) <= k
        /\ Cardinality({i \in DOMAIN v : v[i] <= x}) > k

\* twice np.median(v): the middle value, or the sum of the two middle ones
\* (the correlation does not change when the prediction is doubled)
Median2(v) ==
    LET n == Len0(v)
    IN  IF n % 2 = 1 THEN 2 * KthSmallest(v, n \div 2)
        ELSE KthSmallest(v, n \div 2 - 1) + KthSmallest(v, n \div 2)

\* lines 155-161: the pooled prediction, (n_times x n_channels)
Predict(data, mappings, n_res) ==
    LET y3 == ReshapeF(Dot(data, mappings), n_res)
    IN  [t \in 0..(NTimes - 1) |-> [c \in 0..(NChannels - 1) |-> Median2(y3[t][c])]]

\* Ransac._compute_correlations: one correlation per sensor
ComputeCorrelations(data, mappings, n_res) ==
    LET y_pred == Predict(data, mappings, n_res)
    IN  [c \in 0..(NChannels - 1) |->
            Divide(SumTo([t \in 0..(NTimes - 1) |-> data[c][t] * y_pred[t][c]], NTimes),
                   SumTo([t \in 0..(NTimes - 1) |-> data[c][t] * data[c][t]], NTimes),
                   SumTo([t \in 0..(NTimes - 1) |-> y_pred[t][c] * y_pred[t][c]], NTimes))]

\* -------------------------------------------------------------- aggregator
\* a comparison that counts NaN as below the threshold
LessNaNBelow(corr, mc) ==
    IF corr = NaN THEN TRUE
    ELSE IF mc[1] > 0 THEN corr[1] <= 0 \/ corr[2] * mc[2] * mc[2] < mc[1] * mc[1] * corr[3]
    ELSE IF mc[1] = 0 THEN corr[1] < 0
    ELSE corr[1] < 0 /\ corr[2] * mc[2] * mc[2] > mc[1] * mc[1] * corr[3]

\* corr < min_corr for min_corr = mc[1] / mc[2]; a comparison with NaN is false
Less(corr, mc) ==
    IF corr = NaN THEN FALSE
    ELSE IF mc[1] > 0 THEN corr[1] <= 0 \/ corr[2] * mc[2] * mc[2] < mc[1] * mc[1] * corr[3]
    ELSE IF mc[1] = 0 THEN corr[1] < 0
    ELSE corr[1] < 0 /\ corr[2] * mc[2] * mc[2] > mc[1] * mc[1] * corr[3]

\* lines 190-191: the 0/1 matrix of correlations below min_corr
BadLog(corr, mc) ==
    [i \in DOMAIN corr |-> [c \in 0..(NChannels - 1) |->
        IF Less(corr[i][c], mc) THEN 1 ELSE 0]]

\* line 192: bad_log.sum(axis=0)[c]
Tally(log, c) == SumTo([i \in DOMAIN log |-> log[i][c]], Len0(log))

\* the threshold test with >= in place of >
BadIdxGeq(log, ut, n_epochs) ==
    {c \in 0..(NChannels - 1) : Tally(log, c) * ut[2] >= ut[1] * n_epochs}

\* the threshold test with < in place of >
BadIdxBelow(log, ut, n_epochs) ==
    {c \in 0..(NChannels - 1) : Tally(log, c) * ut[2] < ut[1] * n_epochs}

\* line 194: np.where(bad_log > unbroken_time * n_epochs)[0]
BadIdx(log, ut, n_epochs) ==
    {c \in 0..(NChannels - 1) : Tally(log, c) * ut[2] > ut[1] * n_epochs}

RECURSIVE NamesOf(_, _)
\* lines 195-198: the names of bad_idx, in sensor order from sensor c on
NamesOf(bad_idx, c) ==
    IF c >= NChannels THEN <<>>
    ELSE (IF c \in bad_idx THEN <<ChNames[c]>> ELSE <<>>) \o NamesOf(bad_idx, c + 1)

\* ----------------------------------------------------------- input checks
TypeNames == {"eeg", "mag", "grad", "eog"}

\* 'meg' in epochs
HasMeg(types) == "mag" \in types \/ "grad" \in types

\* _get_channel_type without the test for mixed families
GetChannelTypeUnmixed(types) ==
    IF {key \in types : key \notin {"mag", "grad", "eeg"}} # {}
    THEN [raised |-> TRUE, value |-> "None"]
    ELSE IF "eeg" \in types THEN [raised |-> FALSE, value |-> "eeg"]
    ELSE IF HasMeg(types) THEN [raised |-> FALSE, value |-> "meg"]
    ELSE [raised |-> FALSE, value |-> "None"]

\* _get_channel_type: the family, or the error raised; None when no branch returns
GetChannelType(types) ==
    IF {key \in types : key \notin {"mag", "grad", "eeg"}} # {}
    THEN [raised |-> TRUE, value |-> "None"]
    ELSE IF HasMeg(types) /\ "eeg" \in types THEN [raised |-> TRUE, value |-> "None"]
    ELSE IF "eeg" \in types THEN [raised |-> FALSE, value |-> "eeg"]
    ELSE IF HasMeg(types) THEN [raised |-> FALSE, value |-> "meg"]
    ELSE [raised |-> FALSE, value |-> "None"]

\* _check_data (autoreject.py): rejects a structurally invalid recording
CheckData(e) == e.valid

\* np.array_split(np.arange(n), k)[w]
ArraySplit(n, k, w) ==
    LET size == n \div k + (IF w < n % k THEN 1 ELSE 0)
        start == w * (n \div k) + (IF w < n % k THEN w ELSE n % k)
    IN  [j \in 0..(size - 1) |-> start + j]

\* line 27: the segment a worker scores at step pos of its loop, epochs[idx]
\* with idx the counter of enumerate(idxs)
EpochIndex(idxs, pos) == pos

\* ------------------------------------------------------------------ state
VARIABLES
    n_resample, min_channels, min_corr, unbroken_time, n_jobs, random_state,
    attrs,          \* the fitted attributes the instance has so far
    ch_type, ch_subsets_, mappings_, corr_, bad_log, bad_chs_,
    epochs,         \* the caller's recording
    pc,             \* "idle", or "scoring" while the workers of fit run
    shared,         \* the workers run on the instance itself, not on copies
    workers,        \* per worker: its chunk, loop position and local buffer
    result,         \* outcome of the last call
    fitted          \* a fit has completed on this instance

vars == <<n_resample, min_channels, min_corr, unbroken_time, n_jobs, random_state,
          attrs, ch_type, ch_subsets_, mappings_, corr_, bad_log, bad_chs_,
          epochs, pc, shared, workers, result, fitted>>

params == <<n_resample, min_channels, min_corr, unbroken_time, n_jobs, random_state,
            epochs>>

\* the recordings tried: 1 to MaxEpochs segments, those where sensor 0
\* deviates coming last
SegLists ==
    {s \in UNION {[0..(n - 1) -> Kinds] : n \in 1..MaxEpochs} :
        \A i, j \in DOMAIN s : i < j => s[i] <= s[j]}

Recordings ==
    {[segs |-> s, flat |-> ft[1], types |-> ft[2], valid |-> TRUE] :
        s \in SegLists,
        ft \in {<<-1, {"eeg"}>>, <<-1, {"mag", "grad"}>>, <<NChannels - 1, {"eeg"}>>}}

\* what a caller may pass: the recording, the recording with other sensor
\* types (at least one sensor, each of a type the library knows), or a
\* malformed one
OtherTypes ==
    {{"eeg", "mag"}, {"eeg", "mag", "grad"}, {"eog"}, {"eeg", "eog"}, {"grad", "eog"}}

Inputs ==
    {epochs} \cup {[epochs EXCEPT !.types = ty] : ty \in OtherTypes}
        \cup {[epochs EXCEPT !.valid = FALSE]}

\* which supported families a recording holds
Family(types) ==
    IF HasMeg(types) /\ "eeg" \in types THEN "both"
    ELSE IF "eeg" \in types THEN "eeg"
    ELSE IF HasMeg(types) THEN "meg"
    ELSE "neither"

NoResult ==
    [op |-> "none", status |-> "none", err |-> "", family |-> "", sampled |-> FALSE, bads |-> <<>>]

\* the constructor arguments tried: the default fractions with the largest
\* resample count, a single resample of half the sensors that never flags
\* (unbroken_time = 1), half the sensors with the largest resample count,
\* and a fraction that rounds to no sensor at all
Configs ==
    {[n_resample |-> MaxResample, min_channels |-> <<1, 4>>, unbroken_time |-> <<2, 5>>,
      random_state |-> 1],
     [n_resample |-> 1, min_channels |-> <<1, 2>>, unbroken_time |-> <<1, 1>>,
      random_state |-> 2],
     [n_resample |-> MaxResample, min_channels |-> <<1, 2>>, unbroken_time |-> <<2, 5>>,
      random_state |-> 2],
     [n_resample |-> 1, min_channels |-> <<1, 8>>, unbroken_time |-> <<2, 5>>,
      random_state |-> 1]}

Init ==
    /\ \E cf \in Configs :
        /\ n_resample = cf.n_resample
        /\ min_channels = cf.min_channels
        /\ unbroken_time = cf.unbroken_time
        /\ random_state = cf.random_state
    /\ min_corr = <<3, 4>>
    /\ n_jobs \in 1..MaxJobs
    /\ epochs \in Recordings
    /\ attrs = {}
    /\ ch_type = "None"
    /\ ch_subsets_ = <<>>
    /\ mappings_ = <<>>
    /\ corr_ = <<>>
    /\ bad_log = <<>>
    /\ bad_chs_ = <<>>
    /\ pc = "idle"
    /\ shared = TRUE
    /\ workers = <<>>
    /\ result = NoResult
    /\ fitted = FALSE

\* ---------------------------------------------------------------- actions
FitError(e, err, sampled) ==
    [op |-> "fit", status |-> "error", err |-> err,
     family |-> IF err = "data" THEN "" ELSE Family(e.types),
     sampled |-> sampled, bads |-> <<>>]

NewWorker(n_epochs, w) ==
    LET idxs == ArraySplit(n_epochs, n_jobs, w)
    IN  [idxs |-> idxs, pos |-> 0, phase |-> "compute", own |-> <<>>,
         corrs |-> [j \in DOMAIN idxs |-> [c \in 0..(NChannels - 1) |-> Zero]]]

\* Ransac.fit, lines 170-184: checks, sampler, builder, dispatch of the workers
FitBegin(e) ==
    /\ pc = "idle"
    /\ IF ~CheckData(e)
       THEN /\ result' = FitError(e, "data", FALSE)
            /\ UNCHANGED <<attrs, ch_type, ch_subsets_, mappings_, pc, shared, workers>>
       ELSE LET ty == GetChannelType(e.types)
                subs == GetRandomSubsets(random_state, min_channels, n_resample)
            IN  IF ty.raised
                THEN /\ result' = FitError(e, "type", FALSE)
                     /\ UNCHANGED <<attrs, ch_type, ch_subsets_, mappings_, pc, shared,
                                    workers>>
                ELSE \/ \* an empty subset: the float array np.array([]) may be
                        \* refused as an index (lines 140-144), or accepted,
                        \* leaving an all-zero operator
                        /\ Len0(subs[0]) = 0
                        /\ result' = FitError(e, "mappings", TRUE)
                        /\ ch_type' = ty.value
                        /\ ch_subsets_' = subs
                        /\ attrs' = attrs \cup {"ch_type", "ch_subsets_"}
                        /\ UNCHANGED <<mappings_, pc, shared, workers>>
                     \/ /\ e = epochs
                        /\ ch_type' = ty.value
                        /\ ch_subsets_' = subs
                        /\ mappings_' = GetMappings(ty.value, subs)
                        /\ attrs' = attrs \cup {"ch_type", "ch_subsets_", "mappings_"}
                        \* one job runs in the caller; several run on the
                        \* instance (threads) or on pickled copies (processes)
                        /\ shared' \in (IF n_jobs = 1 THEN {TRUE} ELSE BOOLEAN)
                        /\ workers' = [w \in 0..(n_jobs - 1) |-> NewWorker(Len0(e.segs), w)]
                        /\ pc' = "scoring"
                        /\ result' = [op |-> "fit", status |-> "running", err |-> "",
                                      family |-> Family(e.types), sampled |-> TRUE,
                                      bads |-> <<>>]
    /\ UNCHANGED <<params, corr_, bad_log, bad_chs_, fitted>>

\* _iterate_epochs, line 27: ransac.corr_ = ransac._compute_correlations(epochs[idx])
WorkerCompute(w) ==
    /\ pc = "scoring"
    /\ workers[w].phase = "compute"
    /\ workers[w].pos < Len0(workers[w].idxs)
    /\ LET idx == EpochIndex(workers[w].idxs, workers[w].pos)
           row == ComputeCorrelations(GetData(epochs, idx), mappings_, n_resample)
       IN  IF shared
           THEN /\ corr_' = row
                /\ attrs' = attrs \cup {"corr_"}
                /\ workers' = [workers EXCEPT ![w].phase = "store"]
           ELSE /\ workers' = [workers EXCEPT ![w].phase = "store", ![w].own = row]
                /\ UNCHANGED <<corr_, attrs>>
    /\ UNCHANGED <<params, ch_type, ch_subsets_, mappings_, bad_log, bad_chs_,
                   pc, shared, result, fitted>>

\* _iterate_epochs, line 28: corrs[idx, :] = ransac.corr_
WorkerStore(w) ==
    /\ pc = "scoring"
    /\ workers[w].phase = "store"
    /\ LET row == IF shared THEN corr_ ELSE workers[w].own
       IN  workers' = [workers EXCEPT ![w].phase = "compute",
                                      ![w].pos = @ + 1,
                                      ![w].corrs[workers[w].pos] = row]
    /\ UNCHANGED <<params, attrs, ch_type, ch_subsets_, mappings_, corr_,
                   bad_log, bad_chs_, pc, shared, result, fitted>>

RECURSIVE ConcatUpTo(_, _)
\* np.concatenate(corrs): the workers' buffers in submission order
ConcatUpTo(ws, n) ==
    IF n = 0 THEN <<>> ELSE Concat0(ConcatUpTo(ws, n - 1), ws[n - 1].corrs)

\* Ransac.fit, lines 185-199: concatenation and classification
FitFinish ==
    /\ pc = "scoring"
    /\ \A w \in DOMAIN workers : workers[w].pos = Len0(workers[w].idxs)
    /\ LET corr == ConcatUpTo(workers, Len0(workers))
           log == BadLog(corr, min_corr)
           bads == NamesOf(BadIdx(log, unbroken_time, Len0(epochs.segs)), 0)
       IN  /\ corr_' = corr
           /\ bad_log' = log
           /\ bad_chs_' = bads
    /\ attrs' = attrs \cup {"corr_", "bad_log", "bad_chs_"}
    /\ pc' = "idle"
    /\ workers' = <<>>
    /\ shared' = TRUE
    /\ result' = [result EXCEPT !.status = "ok"]
    /\ fitted' = TRUE
    /\ UNCHANGED <<params, ch_type, ch_subsets_, mappings_>>

\* a transform that takes a missing bad_chs_ for an empty list
TransformResultLenient(e, has_bads, bads) ==
    IF ~CheckData(e)
    THEN [op |-> "transform", status |-> "error", err |-> "data", family |-> "",
          sampled |-> FALSE, bads |-> <<>>]
    ELSE [op |-> "transform", status |-> "ok", err |-> "", family |-> "",
          sampled |-> FALSE, bads |-> bads]

\* Ransac.transform: the outcome of the call
TransformResult(e, has_bads, bads) ==
    IF ~CheckData(e)
    THEN [op |-> "transform", status |-> "error", err |-> "data", family |-> "",
          sampled |-> FALSE, bads |-> <<>>]
    ELSE IF ~has_bads
    THEN [op |-> "transform", status |-> "error", err |-> "unfitted", family |-> "",
          sampled |-> FALSE, bads |-> <<>>]
    ELSE [op |-> "transform", status |-> "ok", err |-> "", family |-> "",
          sampled |-> FALSE, bads |-> bads]

Transform(e) ==
    /\ pc = "idle"
    /\ result' = TransformResult(e, "bad_chs_" \in attrs, bad_chs_)
    /\ UNCHANGED <<params, attrs, ch_type, ch_subsets_, mappings_, corr_,
                   bad_log, bad_chs_, pc, shared, workers, fitted>>

Next ==
    \/ \E e \in Inputs : FitBegin(e)
    \/ \E w \in DOMAIN workers : WorkerCompute(w)
    \/ \E w \in DOMAIN workers : WorkerStore(w)
    \/ FitFinish
    \/ \E e \in {epochs, [epochs EXCEPT !.valid = FALSE]} : Transform(e)

Spec == Init /\ [][Next]_vars

\* ------------------------------------------------- the sampler on its own
Fractions == {<<1, 8>>, <<1, 4>>, <<1, 3>>, <<1, 2>>, <<2, 3>>, <<5, 6>>, <<1, 1>>}

Seeds == 0..31

InitSampler ==
    /\ n_resample \in 1..MaxResample
    /\ min_channels \in Fractions
    /\ random_state \in Seeds
    /\ min_corr = <<3, 4>>
    /\ unbroken_time = <<2, 5>>
    /\ n_jobs = 1
    /\ epochs = [segs |-> [i \in 0..0 |-> 1], flat |-> -1, types |-> {"eeg"},
                 valid |-> TRUE]
    /\ attrs = {}
    /\ ch_type = "None"
    /\ ch_subsets_ = <<>>
    /\ mappings_ = <<>>
    /\ corr_ = <<>>
    /\ bad_log = <<>>
    /\ bad_chs_ = <<>>
    /\ pc = "idle"
    /\ shared = TRUE
    /\ workers = <<>>
    /\ result = NoResult
    /\ fitted = FALSE

\* line 173: self.ch_subsets_ = self._get_random_subsets(epochs.info)
SampleSubsets ==
    /\ "ch_subsets_" \notin attrs
    /\ ch_subsets_' = GetRandomSubsets(random_state, min_channels, n_resample)
    /\ attrs' = attrs \cup {"ch_subsets_"}
    /\ UNCHANGED <<params, ch_type, mappings_, corr_, bad_log, bad_chs_, pc, shared,
                   workers, result, fitted>>

SamplerSpec == InitSampler /\ [][SampleSubsets]_vars

\* ------------------------------------------------------------------ claims
\* a fit has completed and its result is the last outcome
FitOk == pc = "idle" /\ result.op = "fit" /\ result.status = "ok"

NEpochs == Len0(epochs.segs)

\* _iterate_epochs run on the chunk idxs with no other worker: its buffer
IterateEpochsAlone(idxs) ==
    [pos \in DOMAIN idxs |->
        ComputeCorrelations(GetData(epochs, EpochIndex(idxs, pos)), mappings_, n_resample)]

\* the correlation vector of segment i of the recording
SegmentCorr(i) == ComputeCorrelations(GetData(epochs, i), mappings_, n_resample)

Classify(corr) == NamesOf(BadIdx(BadLog(corr, min_corr), unbroken_time, NEpochs), 0)

InList(x, list) == \E k \in DOMAIN list : list[k] = x

\* C1: a completed fit with any n_jobs leaves the corr_ and the bad_chs_ that
\* the fit with n_jobs = 1 (one worker scoring the whole index range) leaves.
C1_SameAsOneJob ==
    FitOk =>
        /\ corr_ = IterateEpochsAlone(ArraySplit(NEpochs, 1, 0))
        /\ bad_chs_ = Classify(IterateEpochsAlone(ArraySplit(NEpochs, 1, 0)))

\* C2: after fit, sensor j is in bad_chs_ iff the number of rows of corr_
\* whose entry for j is below min_corr is strictly greater than
\* unbroken_time * N; with unbroken_time = 1 nothing is flagged.
C2_FlaggedIffTallyExceeds ==
    FitOk =>
        /\ \A j \in 0..(NChannels - 1) :
            InList(ChNames[j], bad_chs_) <=>
                Cardinality({i \in DOMAIN corr_ : Less(corr_[i][j], min_corr)})
                    * unbroken_time[2] > unbroken_time[1] * NEpochs
        /\ unbroken_time = <<1, 1>> => bad_chs_ = <<>>

\* C2 witness: a sensor below min_corr in every segment, its tally equal to
\* unbroken_time * N, is not flagged
C2_Witness ==
    /\ FitOk
    /\ \E j \in 0..(NChannels - 1) :
        /\ Cardinality({i \in DOMAIN corr_ : Less(corr_[i][j], min_corr)})
              * unbroken_time[2] = unbroken_time[1] * NEpochs
        /\ \E i \in DOMAIN corr_ : Less(corr_[i][j], min_corr)
        /\ ~InList(ChNames[j], bad_chs_)

ZeroSensorCase ==
    FitOk /\ min_corr = <<3, 4>> /\ unbroken_time = <<2, 5>> /\ epochs.flat >= 0

\* C3 (as stated): with min_corr = 0.75 and unbroken_time = 0.4, a sensor
\* that is identically zero in every segment appears in bad_chs_.
C3_ZeroSensorFlagged ==
    ZeroSensorCase => InList(ChNames[epochs.flat], bad_chs_)

\* C3 (amended): with min_corr = 0.75 and unbroken_time = 0.4, a sensor that
\* is identically zero in every segment has the 0/0 correlation in every row
\* of corr_ and does not appear in bad_chs_.
C3_ZeroSensorNotFlagged ==
    ZeroSensorCase =>
        /\ \A i \in DOMAIN corr_ : corr_[i][epochs.flat] = NaN
        /\ ~InList(ChNames[epochs.flat], bad_chs_)

\* C3 witness: a fit of a recording with a zero sensor that flags another sensor
C3_Witness == ZeroSensorCase /\ bad_chs_ # <<>>

\* C4: a transform called while no fit has completed fails and returns no
\* recording; a transform that succeeds was called on a fitted instance.
C4_TransformNeedsFit ==
    result.op = "transform" =>
        /\ ~fitted => result.status = "error" /\ result.bads = <<>>
        /\ result.status = "ok" => fitted /\ result.bads = bad_chs_

\* C4 witness: transform fails on an instance whose only fit aborted midway
C4_Witness ==
    /\ result.op = "transform"
    /\ result.err = "unfitted"
    /\ "ch_subsets_" \in attrs
    /\ ~fitted

\* C5: a fit of a recording holding both supported families, or neither,
\* aborts with an error before the sampler runs.
C5_BadFamilyRejected ==
    (result.op = "fit" /\ result.family \in {"both", "neither"}) =>
        result.status = "error" /\ result.err = "type" /\ ~result.sampled

\* C5 witness: a fitted instance rejects a recording with neither family
C5_Witness ==
    /\ result.op = "fit"
    /\ result.family = "neither"
    /\ result.status = "error"
    /\ fitted

CorrLevels == {<<1, 4>>, <<1, 2>>, <<3, 4>>, <<9, 10>>, <<1, 1>>}

TimeLevels == {<<0, 1>>, <<1, 3>>, <<2, 5>>, <<1, 2>>, <<1, 1>>}

FracLeq(a, b) == a[1] * b[2] <= b[1] * a[2]

BadCount(mc, ut) == Cardinality(BadIdx(BadLog(corr_, mc), ut, NEpochs))

\* C6: for the corr_ of a completed fit, the number of flagged sensors does
\* not grow when min_corr is lowered, nor when unbroken_time is raised.
C6_Monotone ==
    FitOk =>
        LET cnt == [mc \in CorrLevels |-> [ut \in TimeLevels |-> BadCount(mc, ut)]]
        IN  /\ \A m1, m2 \in CorrLevels, ut \in TimeLevels :
                FracLeq(m1, m2) => cnt[m1][ut] <= cnt[m2][ut]
            /\ \A u1, u2 \in TimeLevels, mc \in CorrLevels :
                FracLeq(u1, u2) => cnt[mc][u2] <= cnt[mc][u1]

\* C6 witness: a corr_ where both parameters change the count
C6_Witness ==
    /\ FitOk
    /\ \E m1, m2 \in CorrLevels, ut \in TimeLevels : BadCount(m1, ut) < BadCount(m2, ut)
    /\ \E u1, u2 \in TimeLevels, mc \in CorrLevels : BadCount(mc, u2) < BadCount(mc, u1)

\* C7: the sampler produces n_resample subsets, each of
\* round(min_channels * C) pairwise distinct sensors with index in [0, C).
C7_SubsetShape ==
    "ch_subsets_" \in attrs =>
        /\ DOMAIN ch_subsets_ = 0..(n_resample - 1)
        /\ \A r \in DOMAIN ch_subsets_ :
            /\ Len0(ch_subsets_[r]) = RoundHalfEven(min_channels[1] * NChannels, min_channels[2])
            /\ \A j \in DOMAIN ch_subsets_[r] :
                \E p \in 0..(NChannels - 1) : ChNames[p] = ch_subsets_[r][j]
            /\ \A j, k \in DOMAIN ch_subsets_[r] :
                j # k => ch_subsets_[r][j] # ch_subsets_[r][k]

\* C7 witness: two different subsets of at least two sensors each
C7_Witness ==
    /\ "ch_subsets_" \in attrs
    /\ n_resample >= 2
    /\ Len0(ch_subsets_[0]) >= 2
    /\ ch_subsets_[0] # ch_subsets_[1]

\* C8: after fit, row i of corr_ is the correlation vector of segment i of
\* the recording, for every worker count.
C8_RowIsSegment ==
    FitOk => \A i \in 0..(NEpochs - 1) : i \in DOMAIN corr_ /\ corr_[i] = SegmentCorr(i)

\* C9: while workers score on the shared instance, every row a worker has
\* stored is the row that worker computed for that step of its own loop.
C9_RowsAreOwn ==
    (pc = "scoring" /\ n_jobs > 1 /\ shared) =>
        \A w \in DOMAIN workers : \A j \in DOMAIN workers[w].idxs :
            j < workers[w].pos =>
                workers[w].corrs[j] = IterateEpochsAlone(workers[w].idxs)[j]

\* the prediction of sensor c at time t by the r-th stacked operator alone
OperatorPrediction(data, r, c, t) ==
    SumTo([k \in 0..(NChannels - 1) |-> data[k][t] * mappings_[r * NChannels + c][k]],
          NChannels)

\* C10: entry (t, c, r) of the reshaped prediction array is the prediction
\* for sensor c at time t made by row r * C + c of the stacked operator.
C10_ReshapeKeepsResamples ==
    FitOk =>
        \A i \in 0..(NEpochs - 1) :
            LET data == GetData(epochs, i)
                y3 == ReshapeF(Dot(data, mappings_), n_resample)
            IN  \A t \in 0..(NTimes - 1), c \in 0..(NChannels - 1), r \in 0..(n_resample - 1) :
                    y3[t][c][r] = OperatorPrediction(data, r, c, t)

\* C10 witness: a scored segment where two resamples predict differently
C10_Witness ==
    /\ FitOk
    /\ n_resample >= 2
    /\ \E i \in 0..(NEpochs - 1), t \in 0..(NTimes - 1), c \in 0..(NChannels - 1) :
        OperatorPrediction(GetData(epochs, i), 0, c, t)
            # OperatorPrediction(GetData(epochs, i), 1, c, t)

====
